---- MODULE Spec2Model ----
(***************************************************************************)
(* Model of src/app.py: the police-report review service.                  *)
(*                                                                         *)
(* A Python str is a sequence of one-character strings (a fixed literal    *)
(* the code never inspects, such as a URL or a message, is a sequence of   *)
(* one atom).  A JSON value is a record [ty, s, n]; a Python dict is a     *)
(* function from a set of keys to JSON values.                             *)
(***************************************************************************)
EXTENDS Integers, Sequences, FiniteSets, TLC

VARIABLES ANTHROPIC_API_KEY, MAKE_WEBHOOK_URL, pc, request, response, posts, calls

vars == <<ANTHROPIC_API_KEY, MAKE_WEBHOOK_URL, pc, request, response, posts, calls>>

(***************************************************************************)
(* Bounds of the model.                                                    *)
(***************************************************************************)
\* Longest run of whitespace put before and after a submitted matter id.
MaxPad == 1
\* Each base year of YearBases is explored together with the YearSpan years after it.
YearSpan == 4

(***************************************************************************)
(* Python str operations.                                                  *)
(***************************************************************************)
Whitespace == {" ", "\n"}

Digits == {"0", "1", "2", "3", "4", "5", "6", "7", "8", "9"}

DigitVal(c) ==
    CASE c = "0" -> 0 [] c = "1" -> 1 [] c = "2" -> 2 [] c = "3" -> 3 [] c = "4" -> 4
      [] c = "5" -> 5 [] c = "6" -> 6 [] c = "7" -> 7 [] c = "8" -> 8 [] c = "9" -> 9

DigitChar(n) ==
    CASE n = 0 -> "0" [] n = 1 -> "1" [] n = 2 -> "2" [] n = 3 -> "3" [] n = 4 -> "4"
      [] n = 5 -> "5" [] n = 6 -> "6" [] n = 7 -> "7" [] n = 8 -> "8" [] n = 9 -> "9"

RECURSIVE lstrip(_)
lstrip(s) == IF s # <<>> /\ Head(s) \in Whitespace THEN lstrip(Tail(s)) ELSE s

RECURSIVE rstrip(_)
rstrip(s) ==
    IF s # <<>> /\ s[Len(s)] \in Whitespace THEN rstrip(SubSeq(s, 1, Len(s) - 1)) ELSE s

strip_identity(s) == s
\* str.strip()
strip(s) == rstrip(lstrip(s))

LowerChar(c) ==
    CASE c = "A" -> "a" [] c = "D" -> "d" [] c = "F" -> "f" [] c = "P" -> "p"
      [] c = "T" -> "t" [] c = "X" -> "x" [] OTHER -> c

\* str.lower()
lower(s) == [i \in 1..Len(s) |-> LowerChar(s[i])]

\* str.startswith(prefix), str.endswith(suffix)
startswith(s, prefix) == Len(s) >= Len(prefix) /\ SubSeq(s, 1, Len(prefix)) = prefix

endswith(s, suffix) ==
    Len(s) >= Len(suffix) /\ SubSeq(s, Len(s) - Len(suffix) + 1, Len(s)) = suffix

\* The decimal digits of a natural number, without padding.
RECURSIVE Decimal(_)
Decimal(n) == IF n < 10 THEN <<DigitChar(n)>> ELSE Append(Decimal(n \div 10), DigitChar(n % 10))

\* The value of a non-empty sequence of digits.
RECURSIVE DecimalValue(_)
DecimalValue(s) ==
    IF Len(s) = 1 THEN DigitVal(s[1])
    ELSE 10 * DecimalValue(SubSeq(s, 1, Len(s) - 1)) + DigitVal(s[Len(s)])

AllDigits(s) == \A i \in 1..Len(s) : s[i] \in Digits

\* A number of at most two digits, zero-padded to two.
Pad2(n) == IF n < 10 THEN <<"0", DigitChar(n)>> ELSE Decimal(n)

(***************************************************************************)
(* JSON values and Python dicts.                                           *)
(***************************************************************************)
Null == [ty |-> "null", s |-> <<>>, n |-> 0]
Str(s) == [ty |-> "str", s |-> s, n |-> 0]
Num(n) == [ty |-> "num", s |-> <<>>, n |-> n]
\* A non-empty JSON array.
List == [ty |-> "list", s |-> <<>>, n |-> 0]

EmptyDict == [k \in {} |-> Null]

\* Python truthiness of a JSON value.
Truthy(v) ==
    CASE v.ty = "null" -> FALSE
      [] v.ty = "str" -> v.s # <<>>
      [] v.ty = "num" -> v.n # 0
      [] v.ty = "list" -> TRUE

\* dict.get(key, default)
get(d, key, default) == IF key \in DOMAIN d THEN d[key] ELSE default

\* d[key] = value
put(d, key, value) == [k \in DOMAIN d \cup {key} |-> IF k = key THEN value ELSE d[k]]

(***************************************************************************)
(* datetime.                                                               *)
(***************************************************************************)
MINYEAR == 1
MAXYEAR == 9999

IsLeap(y) == y % 4 = 0 /\ (y % 100 # 0 \/ y % 400 = 0)

DaysInMonth(y, m) ==
    IF m = 2 THEN (IF IsLeap(y) THEN 29 ELSE 28)
    ELSE IF m \in {4, 6, 9, 11} THEN 30 ELSE 31

\* The datetime constructor's range check.
ValidDate(y, m, d) ==
    /\ MINYEAR <= y /\ y <= MAXYEAR
    /\ 1 <= m /\ m <= 12
    /\ 1 <= d /\ d <= DaysInMonth(y, m)

ValueError == [exc |-> "ValueError", y |-> 0, m |-> 0, d |-> 0]
TypeError == [exc |-> "TypeError", y |-> 0, m |-> 0, d |-> 0]
Date(y, m, d) == [exc |-> "none", y |-> y, m |-> m, d |-> d]

\* The length of the text that strptime's %m matches at the head of s, 0 for none:
\* the pattern 1[0-2]|0[1-9]|[1-9].
MonthMatch(s) ==
    IF Len(s) >= 2 /\ ((s[1] = "1" /\ s[2] \in {"0", "1", "2"})
                        \/ (s[1] = "0" /\ s[2] \in Digits \ {"0"})) THEN 2
    ELSE IF Len(s) >= 1 /\ s[1] \in Digits \ {"0"} THEN 1
    ELSE 0

\* The same for %d: the pattern 3[01]|[12]\d|0[1-9]|[1-9]| [1-9].
DayMatch(s) ==
    IF Len(s) >= 2 /\ ((s[1] = "3" /\ s[2] \in {"0", "1"})
                        \/ (s[1] \in {"1", "2"} /\ s[2] \in Digits)
                        \/ (s[1] = "0" /\ s[2] \in Digits \ {"0"})) THEN 2
    ELSE IF Len(s) >= 1 /\ s[1] \in Digits \ {"0"} THEN 1
    ELSE IF Len(s) >= 2 /\ s[1] = " " /\ s[2] \in Digits \ {"0"} THEN 2
    ELSE 0

\* The same for %Y: the pattern \d\d\d\d.
YearMatch(s) == IF Len(s) >= 4 /\ AllDigits(SubSeq(s, 1, 4)) THEN 4 ELSE 0

\* The digits of a matched field (a day may be matched with a leading blank).
FieldValue(s) == DecimalValue(IF Head(s) = " " THEN Tail(s) ELSE s)

\* datetime.strptime(v, "%m/%d/%Y"): a datetime, ValueError or TypeError.
strptime(v) ==
    IF v.ty # "str" THEN TypeError
    ELSE LET s == v.s
             ml == MonthMatch(s)
             r1 == SubSeq(s, ml + 1, Len(s))
             dl == IF r1 # <<>> THEN DayMatch(Tail(r1)) ELSE 0
             r2 == IF r1 # <<>> THEN SubSeq(r1, dl + 2, Len(r1)) ELSE <<>>
             yl == IF r2 # <<>> THEN YearMatch(Tail(r2)) ELSE 0
         IN  IF  /\ ml > 0
                 /\ r1 # <<>> /\ Head(r1) = "/"
                 /\ dl > 0
                 /\ r2 # <<>> /\ Head(r2) = "/"
                 /\ yl > 0
                 /\ Len(r2) = 1 + yl
             THEN LET m == FieldValue(SubSeq(s, 1, ml))
                      d == FieldValue(SubSeq(r1, 2, dl + 1))
                      y == FieldValue(SubSeq(r2, 2, yl + 1))
                  IN  IF ValidDate(y, m, d) THEN Date(y, m, d) ELSE ValueError
             ELSE ValueError

\* datetime.replace(year=y, day=d)
replace(dt, y, d) == IF ValidDate(y, dt.m, d) THEN Date(y, dt.m, d) ELSE ValueError

\* datetime.strftime("%m/%d/%Y"); the C library's %Y does not pad the year.
strftime(dt) == Pad2(dt.m) \o <<"/">> \o Pad2(dt.d) \o <<"/">> \o Decimal(dt.y)

\* The number of years the statute of limitations runs.
SolYears == 8

add_years_no_fallback(dt) == replace(dt, dt.y + SolYears, dt.d)
\* The inner try of compute_statute_of_limitations: the same day SolYears later,
\* and the 28th when that raises.
add_years(dt) ==
    LET sol == replace(dt, dt.y + SolYears, dt.d)
    IN  IF sol.exc = "none" THEN sol ELSE replace(dt, dt.y + SolYears, 28)

Returned(s) == [exc |-> "none", value |-> s]
Raised(e) == [exc |-> e, value |-> <<>>]

compute_sol_catching_value_error(v) ==
    LET dt == strptime(v)
    IN  IF dt.exc = "TypeError" THEN Raised("TypeError")
        ELSE IF dt.exc = "ValueError" THEN Returned(<<>>)
        ELSE LET sol == add_years(dt)
             IN  IF sol.exc = "none" THEN Returned(strftime(sol)) ELSE Returned(<<>>)
\* compute_statute_of_limitations(accident_date_str): the call's outcome, a returned
\* str or a raised exception.
compute_statute_of_limitations(v) ==
    LET dt == strptime(v)
    IN  IF dt.exc # "none" THEN Returned(<<>>)
        ELSE LET sol == add_years(dt)
             IN  IF sol.exc = "none" THEN Returned(strftime(sol)) ELSE Returned(<<>>)

\* The month of datetime.now().
Months == 1..12

SpringSummer == <<"https://calendly.com/swans-santiago-p/spring-summer">>
WinterAutumn == <<"https://calendly.com/swans-santiago-p/winter-autumn">>

\* get_seasonal_calendly_link(), with the month datetime.now() gives.
get_seasonal_calendly_link(month) ==
    IF 3 <= month /\ month <= 8 THEN SpringSummer ELSE WinterAutumn

(***************************************************************************)
(* HTTP responses.                                                         *)
(***************************************************************************)
\* jsonify(...) with a status code; an absent key of the body is "absent", "", -1 or
\* has_data = FALSE.
Json(code, success, error, message, webhook_status, has_data, data) ==
    [kind |-> "json", code |-> code, success |-> success, error |-> error,
     message |-> message, webhook_status |-> webhook_status,
     has_data |-> has_data, data |-> data]

ErrorResponse(code, error) == Json(code, "absent", error, "", -1, FALSE, EmptyDict)

\* An exception that leaves the handler: the framework answers 500.
Unhandled(e) ==
    [kind |-> "unhandled", code |-> 500, success |-> "absent", error |-> e,
     message |-> "", webhook_status |-> -1, has_data |-> FALSE, data |-> EmptyDict]

(***************************************************************************)
(* The extraction client.  The service's answer is a sequence of tokens:   *)
(* a fence, the word json, a whitespace character, or a JSON text.         *)
(***************************************************************************)
\* The three backquotes of a markdown code fence.
Fence == "<fence>"
JsonWord == "json"
ObjectText == "{...}"
ArrayText == "[...]"
Garbage == "Sorry, I cannot read this report."

\* The first re.sub: a leading fence, an optional word json and the whitespace that
\* follows are removed (raw_text starts with a fence).
sub_leading_fence(raw_text) ==
    LET a == Tail(raw_text)
        b == IF a # <<>> /\ Head(a) = JsonWord THEN Tail(a) ELSE a
    IN  lstrip(b)

\* The second re.sub: a fence at the end and the whitespace before it are removed.
sub_trailing_fence(raw_text) ==
    IF raw_text # <<>> /\ raw_text[Len(raw_text)] = Fence
    THEN rstrip(SubSeq(raw_text, 1, Len(raw_text) - 1))
    ELSE raw_text

Parsed(kind, value) == [exc |-> "none", kind |-> kind, value |-> value]
Failed(e) == [exc |-> e, kind |-> "none", value |-> EmptyDict]

\* json.loads(raw_text), where the object text denotes obj.
json_loads(raw_text, obj) ==
    LET t == strip(raw_text)
    IN  IF t = <<ObjectText>> THEN Parsed("dict", obj)
        ELSE IF t = <<ArrayText>> THEN Parsed("list", EmptyDict)
        ELSE Failed("JSONDecodeError")

\* parse_police_report(pdf_bytes, filename), given how the service behaves: it
\* raises, answers without a text block, or answers svc.text.
parse_police_report(svc) ==
    IF svc.kind = "api_error" THEN Failed("APIError")
    ELSE IF svc.kind = "no_text_block" THEN Failed("StopIteration")
    ELSE LET raw_text == strip(svc.text)
             unfenced == IF startswith(raw_text, <<Fence>>)
                         THEN sub_trailing_fence(sub_leading_fence(raw_text))
                         ELSE raw_text
         IN  json_loads(unfenced, svc.obj)

(***************************************************************************)
(* submit-for-extraction.                                                  *)
(***************************************************************************)
IntValue(n) == [exc |-> "none", n |-> n]
IntError(e) == [exc |-> e, n |-> 0]

\* int(v): of a str, optional whitespace around an optional sign and digits, which
\* single underscores may separate.
int(v) ==
    CASE v.ty = "num" -> IntValue(v.n)
      [] v.ty = "str" ->
            LET t == strip(v.s)
                signed == t # <<>> /\ Head(t) \in {"+", "-"}
                body == IF signed THEN Tail(t) ELSE t
                digits == SelectSeq(body, LAMBDA c : c # "_")
            IN  IF  /\ body # <<>>
                    /\ \A i \in 1..Len(body) :
                          \/ body[i] \in Digits
                          \/ /\ body[i] = "_"
                             /\ 1 < i /\ i < Len(body)
                             /\ body[i - 1] \in Digits /\ body[i + 1] \in Digits
                THEN IntValue(IF signed /\ Head(t) = "-" THEN 0 - DecimalValue(digits)
                              ELSE DecimalValue(digits))
                ELSE IntError("ValueError")
      [] OTHER -> IntError("TypeError")

has_injuries_non_negative(num_injured) ==
    IF ~Truthy(num_injured) THEN FALSE
    ELSE LET i == int(num_injured) IN IF i.exc # "none" THEN FALSE ELSE i.n >= 0
\* has_injuries: num_injured and int(num_injured) > 0, False on ValueError or TypeError.
has_injuries(num_injured) ==
    IF ~Truthy(num_injured) THEN FALSE
    ELSE LET i == int(num_injured) IN IF i.exc # "none" THEN FALSE ELSE i.n > 0

BodilyInjury == <<"Bodily Injury & Property Damage">>
PropertyOnly == <<"Property Damage Only">>

DotPdf == <<".", "p", "d", "f">>

\* The negation of the test of the second check of api_parse.
is_pdf(filename) == filename # <<>> /\ endswith(lower(filename), DotPdf)

\* The try block of api_parse after the extraction returned a dict.
augment(extracted, month) ==
    LET accident_date == get(extracted, "accident_date", Str(<<>>))
        sol_date == compute_statute_of_limitations(accident_date)
        e1 == put(extracted, "statute_of_limitations_date", Str(sol_date.value))
        e2 == put(e1, "calendly_link", Str(get_seasonal_calendly_link(month)))
        num_injured == get(extracted, "number_of_injured", Str(<<"0">>))
        e3 == put(e2, "claim_type",
                  Str(IF has_injuries(num_injured) THEN BodilyInjury ELSE PropertyOnly))
    IN  IF sol_date.exc # "none" THEN ErrorResponse(500, "Error processing PDF")
        ELSE Json(200, "true", "", "", -1, TRUE, e3)

\* The try block of api_parse: the response.
extract(svc, month) ==
    LET r == parse_police_report(svc)
    IN  IF r.exc = "JSONDecodeError"
        THEN ErrorResponse(500, "Failed to parse AI response as JSON")
        ELSE IF r.exc # "none" THEN ErrorResponse(500, "Error processing PDF")
        \* extracted.get of a list raises AttributeError, caught by except Exception
        ELSE IF r.kind # "dict" THEN ErrorResponse(500, "Error processing PDF")
        ELSE augment(r.value, month)

api_parse_key_first(has_file, filename, key, svc, month) ==
    IF key = "" THEN [response |-> ErrorResponse(500, "ANTHROPIC_API_KEY not configured"), calls |-> 0]
    ELSE IF ~has_file THEN [response |-> ErrorResponse(400, "No file uploaded"), calls |-> 0]
    ELSE IF ~is_pdf(filename)
    THEN [response |-> ErrorResponse(400, "Please upload a PDF file"), calls |-> 0]
    ELSE [response |-> extract(svc, month), calls |-> 1]
\* api_parse(): the response and the number of calls of parse_police_report.
api_parse(has_file, filename, key, svc, month) ==
    IF ~has_file THEN [response |-> ErrorResponse(400, "No file uploaded"), calls |-> 0]
    ELSE IF ~is_pdf(filename)
    THEN [response |-> ErrorResponse(400, "Please upload a PDF file"), calls |-> 0]
    ELSE IF key = ""
    THEN [response |-> ErrorResponse(500, "ANTHROPIC_API_KEY not configured"), calls |-> 0]
    ELSE [response |-> extract(svc, month), calls |-> 1]

(***************************************************************************)
(* submit-approval.                                                        *)
(***************************************************************************)
\* datetime.now().isoformat(), of which the model keeps the month.
isoformat(month) == <<"now-">> \o Pad2(month)

Paralegal == <<"Paralegal">>

stamp_untrimmed(data, matter_id, t1, t2) ==
    LET d2 == put(data, "approved_at", Str(isoformat(t1)))
        d3 == put(d2, "approved_by", Str(Paralegal))
    IN  put(d3, "calendly_link", Str(get_seasonal_calendly_link(t2)))
\* Lines 213-218 of api_approve: the record with the trimmed matter id and the
\* metadata; t1 and t2 are the months of the two datetime.now() calls.
stamp(data, matter_id, t1, t2) ==
    LET d1 == put(data, "matter_id", Str(matter_id))
        d2 == put(d1, "approved_at", Str(isoformat(t1)))
        d3 == put(d2, "approved_by", Str(Paralegal))
    IN  put(d3, "calendly_link", Str(get_seasonal_calendly_link(t2)))

ResponseOf(status) == [kind |-> "response", status |-> status]
RequestException == [kind |-> "RequestException", status |-> 0]

SentMessage == "Data approved and sent to automation workflow"
FailedMessage == "Data approved but webhook delivery failed"
DemoMessage == "Data approved successfully (no webhook configured - demo mode)"

forward_uncaught(url, data, outcome) ==
    IF url # ""
    THEN IF outcome.kind = "response"
         THEN [response |-> Json(200, "true", "", SentMessage, outcome.status, FALSE, EmptyDict),
               posts |-> <<data>>]
         ELSE [response |-> Unhandled("RequestException"), posts |-> <<data>>]
    ELSE [response |-> Json(200, "true", "", DemoMessage, -1, TRUE, data), posts |-> <<>>]
forward_raise_for_status(url, data, outcome) ==
    IF url # ""
    THEN IF outcome.kind = "response" /\ outcome.status < 400
         THEN [response |-> Json(200, "true", "", SentMessage, outcome.status, FALSE, EmptyDict),
               posts |-> <<data>>]
         ELSE [response |-> Json(502, "false", "", FailedMessage, -1, TRUE, data),
               posts |-> <<data>>]
    ELSE [response |-> Json(200, "true", "", DemoMessage, -1, TRUE, data), posts |-> <<>>]
\* Lines 221-246 of api_approve: the response and the bodies POSTed to the webhook;
\* outcome is what requests.post does, a response or a RequestException.
forward(url, data, outcome) ==
    IF url # ""
    THEN IF outcome.kind = "response"
         THEN [response |-> Json(200, "true", "", SentMessage, outcome.status, FALSE, EmptyDict),
               posts |-> <<data>>]
         ELSE [response |-> Json(502, "false", "", FailedMessage, -1, TRUE, data),
               posts |-> <<data>>]
    ELSE [response |-> Json(200, "true", "", DemoMessage, -1, TRUE, data), posts |-> <<>>]

\* api_approve(): body is request.get_json(), None or a dict.
api_approve(body, url, t1, t2, outcome) ==
    IF body.none \/ DOMAIN body.dict = {}
    THEN [response |-> ErrorResponse(400, "No data provided"), posts |-> <<>>]
    ELSE LET given == get(body.dict, "matter_id", Null)
             raw == IF Truthy(given) THEN given ELSE Str(<<>>)
         IN  \* .strip() of a value that is no str raises AttributeError
             IF raw.ty # "str"
             THEN [response |-> Unhandled("AttributeError"), posts |-> <<>>]
             ELSE LET matter_id == strip(raw.s)
                  IN  IF matter_id = <<>>
                      THEN [response |-> ErrorResponse(400, "Clio Matter ID is required"),
                            posts |-> <<>>]
                      ELSE forward(url, stamp(body.dict, matter_id, t1, t2), outcome)

(***************************************************************************)
(* The inputs explored.                                                    *)
(***************************************************************************)
Pad(n) == [i \in 1..n |-> " "]

\* Matter ids as submitted: empty, blank, and padded or not.
MatterTexts ==
    {Pad(l) \o core \o Pad(r) :
        l \in 0..MaxPad, r \in 0..MaxPad, core \in {<<>>, <<"\n">>, <<"7">>, <<"M", " ", "7">>}}

MatterValues == {Null, Num(0), Num(7), List} \cup {Str(t) : t \in MatterTexts}

\* The fields of a submitted record other than the matter id.
OtherFields ==
    {EmptyDict,
     [client_name |-> Str(<<"A", "l">>)],
     [client_name |-> Str(<<"A", "l">>), approved_by |-> Str(<<"Intern">>),
      calendly_link |-> Str(<<"stale">>)]}

ApproveBodies ==
    {[none |-> TRUE, dict |-> EmptyDict]}
    \cup {[none |-> FALSE, dict |-> o] : o \in OtherFields}
    \cup {[none |-> FALSE, dict |-> put(o, "matter_id", v)] : o \in OtherFields, v \in MatterValues}

StatusCodes == {200, 404, 500}

PostOutcomes == {ResponseOf(c) : c \in StatusCodes} \cup {RequestException}

Filenames ==
    {<<>>,
     <<"a", ".", "p", "d", "f">>,
     <<"A", ".", "P", "D", "F">>,
     <<"a", ".", "P", "d", "f">>,
     <<".", "p", "d", "f">>,
     <<"p", "d", "f">>,
     <<"a", ".", "t", "x", "t">>,
     <<"a", ".", "p", "d", "f", ".", "t", "x", "t">>}

DateText(m, d, y) == Pad2(m) \o <<"/">> \o Pad2(d) \o <<"/">> \o Decimal(y)

\* A key the service left out.
Missing == [ty |-> "missing", s |-> <<>>, n |-> 0]

EmailValues == {Missing, Str(<<>>), Str(<<"a", "@", "b", ".", "c">>)}

AccidentDates ==
    {Missing, Null, Str(<<>>), Str(DateText(1, 15, 2020)), Str(DateText(2, 29, 2092)),
     Str(DateText(13, 40, 2020)), Str(DateText(12, 31, 9995))}

InjuredValues ==
    {Missing, Null, List, Num(0), Num(2), Num(0 - 1),
     Str(<<>>), Str(<<"0">>), Str(<<"3">>), Str(<<"0", "0">>), Str(<<" ", "3", "\n">>),
     Str(<<"-", "2">>), Str(<<"+", "1">>), Str(<<"-">>), Str(<<"3", ".", "5">>),
     Str(<<"a", "b", "c">>), Str(<<" ">>), Str(<<"1", "_", "0">>), Str(<<"_", "1">>),
     Str(<<"+", " ", "1">>)}

\* The JSON object of the service's answer.
Object(email, date, injured) ==
    LET v == [client_email |-> email, accident_date |-> date, number_of_injured |-> injured,
              client_name |-> Str(<<"A", "l">>)]
    IN  [k \in {key \in DOMAIN v : v[key].ty # "missing"} |-> v[k]]

Objects ==
    {EmptyDict}
    \cup {Object(e, Str(DateText(1, 15, 2020)), Str(<<"0">>)) : e \in EmailValues}
    \cup {Object(Str(<<>>), d, Str(<<"1">>)) : d \in AccidentDates}
    \cup {Object(Str(<<>>), Str(DateText(1, 15, 2020)), i) : i \in InjuredValues}

\* Answers that hold the object text, and answers that do not.
ObjectAnswers ==
    {<<ObjectText>>,
     <<" ", ObjectText, "\n">>,
     <<Fence, JsonWord, "\n", ObjectText, "\n", Fence>>,
     <<Fence, ObjectText, Fence>>,
     <<Fence, JsonWord, ObjectText>>,
     <<ObjectText, "\n", Fence>>,
     <<Fence, " ", JsonWord, "\n", ObjectText, "\n", Fence>>,
     <<Garbage, "\n", ObjectText>>}

OtherAnswers ==
    {<<>>,
     <<Garbage>>,
     <<ArrayText>>,
     <<Fence, JsonWord, "\n", ArrayText, "\n", Fence>>,
     <<Fence, "\n", Garbage, "\n", Fence>>,
     <<Fence>>}

Behaviour(kind, text, obj) == [kind |-> kind, text |-> text, obj |-> obj]

\* The call is never made.
NotCalled == Behaviour("not_called", <<>>, EmptyDict)

ServiceBehaviours ==
    {Behaviour("api_error", <<>>, EmptyDict), Behaviour("no_text_block", <<>>, EmptyDict)}
    \cup {Behaviour("text", t, EmptyDict) : t \in OtherAnswers}
    \cup {Behaviour("text", t, o) : t \in ObjectAnswers, o \in Objects}

YearBases == {1896, 2016, 2092, 9988}

Years == UNION {b..(b + YearSpan) : b \in YearBases}

MonthTexts == {<<"0", "0">>, <<"0", "1">>, <<"0", "2">>, <<"0", "4">>, <<"1", "2">>,
               <<"1", "3">>, <<"2">>}

DayTexts == {<<"0", "0">>, <<"0", "1">>, <<"2", "8">>, <<"2", "9">>, <<"3", "0">>,
             <<"3", "1">>, <<"3", "2">>, <<"4", "0">>, <<"5">>, <<" ", "5">>}

YearTexts == {Decimal(y) : y \in Years}
             \cup {<<"0", "0", "0", "0">>, <<"2", "0">>, <<"0", "2", "0", "2", "0">>}

\* The arguments of compute_statute_of_limitations explored.
SolInputs ==
    {Str(m \o <<"/">> \o d \o <<"/">> \o y) : m \in MonthTexts, d \in DayTexts, y \in YearTexts}
    \cup {Null, Num(5), Str(<<>>), Str(<<"x">>),
          Str(<<"2", "0", "2", "0", "-", "0", "1", "-", "1", "5">>),
          Str(DateText(1, 15, 2020) \o <<" ">>),
          Str(<<" ">> \o DateText(1, 15, 2020)),
          Str(<<"0", "1", "/", "1", "5">>)}

(***************************************************************************)
(* The service: requests are handled one at a time, and nothing of a       *)
(* request outlives its response.                                          *)
(***************************************************************************)
NoRequest == [op |-> "none"]
NoResponse ==
    [kind |-> "none", code |-> 0, success |-> "absent", error |-> "", message |-> "",
     webhook_status |-> -1, has_data |-> FALSE, data |-> EmptyDict]

\* The module-level configuration is read from the environment at start.
Init ==
    /\ ANTHROPIC_API_KEY \in {"", "sk-ant-key"}
    /\ MAKE_WEBHOOK_URL \in {"", "https://hook.make.com/swans"}
    /\ pc = "idle"
    /\ request = NoRequest
    /\ response = NoResponse
    /\ posts = <<>>
    /\ calls = 0

\* POST /api/parse.  The service's behaviour and the clock are drawn when the handler
\* gets to them.
ApiParse ==
    /\ pc = "idle"
    /\ \E has_file \in BOOLEAN :
       \E filename \in (IF has_file THEN Filenames ELSE {<<>>}) :
          LET reached == api_parse(has_file, filename, ANTHROPIC_API_KEY, NotCalled, 1).calls > 0
          IN  \E svc \in (IF reached THEN ServiceBehaviours ELSE {NotCalled}) :
              \E month \in (IF reached THEN Months ELSE {1}) :
                 LET r == api_parse(has_file, filename, ANTHROPIC_API_KEY, svc, month)
                 IN  /\ request' = [op |-> "parse", has_file |-> has_file,
                                    filename |-> filename, svc |-> svc, month |-> month]
                     /\ response' = r.response
                     /\ calls' = r.calls
    /\ posts' = <<>>
    /\ pc' = "responded"
    /\ UNCHANGED <<ANTHROPIC_API_KEY, MAKE_WEBHOOK_URL>>

\* POST /api/approve.  The second datetime.now() is in the month of the first or in
\* the next.
ApiApprove ==
    /\ pc = "idle"
    /\ \E body \in ApproveBodies, t1 \in Months, outcome \in PostOutcomes :
       \E t2 \in {t1, (t1 % 12) + 1} :
          LET r == api_approve(body, MAKE_WEBHOOK_URL, t1, t2, outcome)
          IN  /\ request' = [op |-> "approve", body |-> body, t1 |-> t1, t2 |-> t2,
                             outcome |-> outcome]
              /\ response' = r.response
              /\ posts' = r.posts
    /\ calls' = 0
    /\ pc' = "responded"
    /\ UNCHANGED <<ANTHROPIC_API_KEY, MAKE_WEBHOOK_URL>>

\* The response is sent; the handler's locals are gone.
Respond ==
    /\ pc = "responded"
    /\ pc' = "idle"
    /\ request' = NoRequest
    /\ response' = NoResponse
    /\ posts' = <<>>
    /\ calls' = 0
    /\ UNCHANGED <<ANTHROPIC_API_KEY, MAKE_WEBHOOK_URL>>

Next == ApiParse \/ ApiApprove \/ Respond

Spec == Init /\ [][Next]_vars

(***************************************************************************)
(* compute_statute_of_limitations alone: the argument is drawn at the      *)
(* start and the function is applied to it.                                *)
(***************************************************************************)
InitSol ==
    /\ ANTHROPIC_API_KEY = ""
    /\ MAKE_WEBHOOK_URL = ""
    /\ pc = "idle"
    /\ request \in {[op |-> "sol", arg |-> v] : v \in SolInputs}
    /\ response = NoResponse
    /\ posts = <<>>
    /\ calls = 0

ComputeSol ==
    /\ pc = "idle"
    /\ request.op = "sol"
    /\ response' = compute_statute_of_limitations(request.arg)
    /\ pc' = "returned"
    /\ UNCHANGED <<ANTHROPIC_API_KEY, MAKE_WEBHOOK_URL, request, posts, calls>>

NextSol == ComputeSol

SpecSol == InitSol /\ [][NextSol]_vars

(***************************************************************************)
(* Vocabulary of the properties, stated apart from the operators above.    *)
(***************************************************************************)
Approving == pc = "responded" /\ request.op = "approve"
Extracting == pc = "responded" /\ request.op = "parse"
SolReturned == pc = "returned" /\ request.op = "sol"

AllBlank(s) == \A i \in 1..Len(s) : s[i] \in Whitespace

\* t is s without its leading and trailing whitespace.
IsTrimOf(t, s) ==
    /\ t # <<>> /\ t[1] \notin Whitespace /\ t[Len(t)] \notin Whitespace
    /\ \E i \in 0..Len(s) :
          /\ i + Len(t) <= Len(s)
          /\ t = SubSeq(s, i + 1, i + Len(t))
          /\ AllBlank(SubSeq(s, 1, i))
          /\ AllBlank(SubSeq(s, i + Len(t) + 1, Len(s)))

\* The submitted matter id is missing, null, empty or whitespace-only.
NoMatterId(body) ==
    \/ body.none
    \/ "matter_id" \notin DOMAIN body.dict
    \/ body.dict["matter_id"].ty = "null"
    \/ body.dict["matter_id"].ty = "str" /\ AllBlank(body.dict["matter_id"].s)

\* The submitted matter id is a string with more than whitespace in it.
HasMatterId(body) ==
    /\ ~body.none
    /\ "matter_id" \in DOMAIN body.dict
    /\ body.dict["matter_id"].ty = "str"
    /\ ~AllBlank(body.dict["matter_id"].s)

ValidationError(r) == r.kind = "json" /\ r.code = 400 /\ r.error # "" /\ r.success = "absent"

StampKeys == {"matter_id", "approved_at", "approved_by", "calendly_link"}

\* The link of the season of a month.
LinkOf(month) == IF month \in {3, 4, 5, 6, 7, 8} THEN SpringSummer ELSE WinterAutumn

\* data is the submitted record stamped for approval.
Stamped(data, body, month) ==
    /\ DOMAIN data = DOMAIN body.dict \cup StampKeys
    /\ data["matter_id"].ty = "str" /\ IsTrimOf(data["matter_id"].s, body.dict["matter_id"].s)
    /\ data["approved_at"].ty = "str" /\ data["approved_at"].s # <<>>
    /\ data["approved_by"] = Str(<<"Paralegal">>)
    /\ data["calendly_link"] = Str(LinkOf(month))

\* C1: a submit-approval request whose matter id is missing, null, empty or
\* whitespace-only gets a validation error and no webhook POST is issued, with or
\* without a forwarding endpoint.
C1_BlankMatterRejected ==
    Approving /\ NoMatterId(request.body) => ValidationError(response) /\ posts = <<>>

C1_Witness ==
    /\ Approving
    /\ MAKE_WEBHOOK_URL # ""
    /\ ~request.body.none
    /\ "matter_id" \in DOMAIN request.body.dict
    /\ request.body.dict["matter_id"] = Str(<<" ">>)
    /\ response.error = "Clio Matter ID is required"
    /\ posts = <<>>

\* C2: with a matter id, a forwarding endpoint and a POST that fails with a
\* network-level error, api_approve does not raise: it answers success = false with
\* the delivery error message and the stamped record.
C2_DeliveryFailureReturned ==
    Approving /\ HasMatterId(request.body) /\ MAKE_WEBHOOK_URL # ""
        /\ request.outcome.kind = "RequestException"
    => /\ response.kind = "json"
       /\ response.success = "false"
       /\ response.message = "Data approved but webhook delivery failed"
       /\ response.has_data
       /\ Stamped(response.data, request.body, request.t2)

C2_Witness ==
    /\ Approving
    /\ HasMatterId(request.body)
    /\ MAKE_WEBHOOK_URL # ""
    /\ request.outcome.kind = "RequestException"
    /\ Len(posts) = 1
    /\ response.success = "false"
    /\ response.has_data

C10_AnyStatusIsSuccess ==
    /\ Approving /\ HasMatterId(request.body) /\ MAKE_WEBHOOK_URL # ""
       => /\ Len(posts) = 1
          /\ request.outcome.kind = "response"
             => /\ response.kind = "json"
                /\ response.success = "true"
                /\ response.webhook_status = request.outcome.status
    /\ Approving /\ response.success = "false"
       => request.outcome.kind = "RequestException" /\ MAKE_WEBHOOK_URL # ""
    /\ Approving => Len(posts) <= 1

C10_Witness ==
    /\ Approving
    /\ MAKE_WEBHOOK_URL # ""
    /\ request.outcome = ResponseOf(500)
    /\ Len(posts) = 1
    /\ response.success = "true"
    /\ response.webhook_status = 500

\* The filename ends in .pdf, letter for letter.
EndsInDotPdf(name) ==
    /\ Len(name) >= 4
    /\ SubSeq(name, Len(name) - 3, Len(name)) = <<".", "p", "d", "f">>

\* The filename ends in .pdf, in letters of either case.
EndsInDotPdfAnyCase(name) ==
    /\ Len(name) >= 4
    /\ name[Len(name) - 3] = "."
    /\ name[Len(name) - 2] \in {"p", "P"}
    /\ name[Len(name) - 1] \in {"d", "D"}
    /\ name[Len(name)] \in {"f", "F"}

PlainError(r, code, error) ==
    r.kind = "json" /\ r.code = code /\ r.error = error /\ r.success = "absent" /\ ~r.has_data

\* What api_parse answers when it does not call the extraction service, the checks
\* being made in the order missing file, non-PDF file, missing credential.
RejectedInOrder(is_pdf_name) ==
    IF ~request.has_file THEN PlainError(response, 400, "No file uploaded")
    ELSE IF ~is_pdf_name THEN PlainError(response, 400, "Please upload a PDF file")
    ELSE PlainError(response, 500, "ANTHROPIC_API_KEY not configured")

\* C3 as stated: the extraction service is called only when a file is present, its
\* name ends in .pdf and the credential is configured; otherwise an error is answered
\* with no call, the checks in the order missing file, non-PDF file, missing credential.
C3_AsStated ==
    Extracting
    => LET accepted == /\ request.has_file
                       /\ EndsInDotPdf(request.filename)
                       /\ ANTHROPIC_API_KEY # ""
       IN  /\ calls > 0 <=> accepted
           /\ ~accepted => calls = 0 /\ RejectedInOrder(EndsInDotPdf(request.filename))

\* C3, amended: the same with the name ending in .pdf in letters of either case.
C3_CalledOnlyWhenValid ==
    Extracting
    => LET accepted == /\ request.has_file
                       /\ EndsInDotPdfAnyCase(request.filename)
                       /\ ANTHROPIC_API_KEY # ""
       IN  /\ calls > 0 <=> accepted
           /\ calls <= 1
           /\ ~accepted => calls = 0 /\ RejectedInOrder(EndsInDotPdfAnyCase(request.filename))

C3_Witness ==
    /\ Extracting
    /\ request.has_file
    /\ request.filename = <<"A", ".", "P", "D", "F">>
    /\ ANTHROPIC_API_KEY # ""
    /\ calls = 1

\* The service's answer is malformed: a text that is no JSON object once the fences
\* are stripped.
Malformed(svc) ==
    /\ svc.kind = "text"
    /\ LET r == parse_police_report(svc) IN r.exc # "none" \/ r.kind # "dict"

ParsingError(r) ==
    PlainError(r, 500, "Failed to parse AI response as JSON")

GenericError(r) == PlainError(r, 500, "Error processing PDF")

\* C5: a malformed answer of the extraction service gets the parsing error and any
\* other failure of the extraction the generic processing error; a malformed answer
\* never gets the generic error, and neither case answers a success record.
C5_MalformedIsParsingError ==
    Extracting /\ calls > 0
    => /\ Malformed(request.svc) => ParsingError(response)
       /\ request.svc.kind \in {"api_error", "no_text_block"} => GenericError(response)

\* C6: the record of a successful submit-for-extraction has client_email equal to the
\* empty string, whatever the extraction service returned for that key.
C6_ClientEmailEmpty ==
    Extracting /\ response.success = "true"
    => get(response.data, "client_email", Str(<<>>)) = Str(<<>>)

\* The text is a positive integer: optional whitespace around an optional plus sign
\* and digits that are not all zeros, an underscore allowed between two digits.
PositiveIntegerText(s) ==
    \E t \in {SubSeq(s, i, j) : i \in 1..Len(s), j \in 1..Len(s)} :
       /\ IsTrimOf(t, s)
       /\ LET digits == IF t[1] = "+" THEN Tail(t) ELSE t
          IN  /\ digits # <<>>
              /\ digits[1] \in Digits /\ digits[Len(digits)] \in Digits
              /\ \A i \in 1..Len(digits) : digits[i] \in Digits \cup {"_"}
              /\ \A i \in 1..(Len(digits) - 1) : ~(digits[i] = "_" /\ digits[i + 1] = "_")
              /\ \E i \in 1..Len(digits) : digits[i] \in Digits \ {"0"}

\* number_of_injured of the extracted object parses to an integer greater than 0.
InjuredPositive(obj) ==
    /\ "number_of_injured" \in DOMAIN obj
    /\ LET v == obj["number_of_injured"]
       IN  \/ v.ty = "num" /\ v.n > 0
           \/ v.ty = "str" /\ PositiveIntegerText(v.s)

DateFields(v) ==
    [m |-> DecimalValue(SubSeq(v.s, 1, 2)),
     d |-> DecimalValue(SubSeq(v.s, 4, 5)),
     y |-> DecimalValue(SubSeq(v.s, 7, 10))]

ValidMMDDYYYY(v) ==
    /\ v.ty = "str"
    /\ Len(v.s) = 10
    /\ v.s[3] = "/" /\ v.s[6] = "/"
    /\ \A i \in {1, 2, 4, 5, 7, 8, 9, 10} : v.s[i] \in Digits
    /\ LET f == DateFields(v)
       IN  /\ f.y >= 1
           /\ f.m \in 1..12
           /\ f.d >= 1
           /\ f.d <= (CASE f.m \in {1, 3, 5, 7, 8, 10, 12} -> 31
                        [] f.m \in {4, 6, 9, 11} -> 30
                        [] OTHER -> IF f.y % 4 = 0 /\ (f.y % 100 # 0 \/ f.y % 400 = 0)
                                    THEN 29 ELSE 28)

\* The date eight years after the argument, Feb 29 becoming Feb 28 when the target
\* year is no leap year.
EightYearsLater(v) ==
    LET f == DateFields(v)
        y == f.y + 8
        leap == y % 4 = 0 /\ (y % 100 # 0 \/ y % 400 = 0)
        d == IF f.m = 2 /\ f.d = 29 /\ ~leap THEN 28 ELSE f.d
    IN  SubSeq(v.s, 1, 3) \o Pad2(d) \o <<"/">> \o Decimal(y)

\* C7 as stated: for a valid MM/DD/YYYY date the function returns the same month and
\* day eight years later, Feb 29 becoming Feb 28 in a target year that is no leap year.
C7_AsStated ==
    SolReturned /\ ValidMMDDYYYY(request.arg)
    => response.exc = "none" /\ response.value = EightYearsLater(request.arg)

\* C7, amended: that holds when the target year is at most 9999; for a later target
\* year the function returns the empty string.
C7_EightYearsLater ==
    SolReturned /\ ValidMMDDYYYY(request.arg)
    => /\ response.exc = "none"
       /\ response.value = IF DateFields(request.arg).y + 8 <= 9999
                           THEN EightYearsLater(request.arg)
                           ELSE <<>>

C7_Witness ==
    /\ SolReturned
    /\ request.arg = Str(<<"0", "2", "/", "2", "9", "/", "2", "0", "9", "2">>)
    /\ response.value = <<"0", "2", "/", "2", "8", "/", "2", "1", "0", "0">>

\* C8 as stated: the function returns the empty string and never raises for every
\* argument that is no valid MM/DD/YYYY calendar date.
C8_AsStated ==
    SolReturned /\ ~ValidMMDDYYYY(request.arg)
    => response.exc = "none" /\ response.value = <<>>

\* The ways a month and a day may be written for the parse to take them: one or two
\* digits, and a one-digit day also after a blank.
MonthForms == {Decimal(m) : m \in 1..12} \cup {Pad2(m) : m \in 1..12}
DayForms ==
    {Decimal(d) : d \in 1..31} \cup {Pad2(d) : d \in 1..31}
    \cup {<<" ">> \o Decimal(d) : d \in 1..9}

\* The argument is a calendar date written month/day/year with the month and the day
\* in one of those forms and a year of four digits.
AcceptedDate(v) ==
    /\ v.ty = "str"
    /\ \E i \in 1..Len(v.s), j \in 1..Len(v.s) :
          /\ i < j
          /\ v.s[i] = "/" /\ v.s[j] = "/"
          /\ SubSeq(v.s, 1, i - 1) \in MonthForms
          /\ SubSeq(v.s, i + 1, j - 1) \in DayForms
          /\ Len(v.s) = j + 4
          /\ \A k \in (j + 1)..Len(v.s) : v.s[k] \in Digits
          /\ LET m == DecimalValue(SubSeq(v.s, 1, i - 1))
                 dtext == SubSeq(v.s, i + 1, j - 1)
                 d == DecimalValue(IF dtext[1] = " " THEN Tail(dtext) ELSE dtext)
                 y == DecimalValue(SubSeq(v.s, j + 1, Len(v.s)))
             IN  /\ y >= 1
                 /\ d <= (CASE m \in {1, 3, 5, 7, 8, 10, 12} -> 31
                            [] m \in {4, 6, 9, 11} -> 30
                            [] OTHER -> IF y % 4 = 0 /\ (y % 100 # 0 \/ y % 400 = 0)
                                        THEN 29 ELSE 28)

\* C8, amended: the function returns the empty string and never raises for every
\* argument that is no calendar date in a form the parse takes; a date written with a
\* one-digit month or day is taken.
C8_EmptyOnRejectedInput ==
    SolReturned /\ ~AcceptedDate(request.arg)
    => response.exc = "none" /\ response.value = <<>>

C8_Witness ==
    /\ SolReturned
    /\ request.arg = Str(<<"1", "3", "/", "4", "0", "/", "2", "0", "2", "0">>)
    /\ response.exc = "none"
    /\ response.value = <<>>

====
